---- MODULE Spec2Model ----
(***************************************************************************)
(* Model of spid_cie_oidc/entity/statements.py: the EntityConfiguration    *)
(* class (self validation, discovery of superiors, validation of a         *)
(* subject by the statements of its superiors).                            *)
(*                                                                         *)
(* A token (a compact JWS) is named by an identifier; Tok gives what its   *)
(* decoding yields: whether it decodes at all, the kid of its header, the  *)
(* key material that produced its signature, and the claims of its         *)
(* payload.  Python's None is the string "None"; a claim that is missing   *)
(* from a payload is Absent.                                               *)
(***************************************************************************)
EXTENDS Integers, Sequences, FiniteSets, TLC

\* ------------------------------------------------------------------ bounds
\* largest number of EntityConfiguration objects alive at once
MaxEnts == 3
\* largest number of calls in one run
MaxSteps == 2
\* largest value of the max_authority_hints argument
MaxAuthorityHints == 1
\* longest authority_hints argument
MaxHintLen == 2

\* --------------------------------------------------------------- constants
None == "None"
Absent == "<absent>"
NoErr == "no error"

Subjects == {"A", "B", "T"}

Key(kid, k) == [kid |-> kid, k |-> k]
J1 == <<Key("k1", 1)>>
J2 == <<Key("k2", 2)>>
J3 == <<Key("k2", 2), Key("k3", 3)>>
JN == <<Key(None, 1)>>
Jdup == <<Key("k1", 2), Key("k1", 1)>>

\* A decoded token.  ok: header and payload decode; kid: header.get("kid");
\* signer: the key material the signature was made with (0: none);
\* has_jwks / jwks: payload.get("jwks"); has_hints / hints:
\* payload["authority_hints"]; endpoint:
\* payload["metadata"]["federation_entity"]["federation_api_endpoint"].
T(ok, kid, signer, iss, sub, has_jwks, jwks, has_hints, hints, endpoint) ==
    [ok |-> ok, kid |-> kid, signer |-> signer, iss |-> iss, sub |-> sub,
     has_jwks |-> has_jwks, jwks |-> jwks, has_hints |-> has_hints,
     hints |-> hints, endpoint |-> endpoint]

Tok ==
    [ \* self issued entity configurations
      ecA      |-> T(TRUE, "k1", 1, "A", "A", TRUE, J1, TRUE, <<"B", "T">>, Absent),
      ecB      |-> T(TRUE, "k2", 2, "B", "B", TRUE, J2, TRUE, <<"A">>, "B/api"),
      ecT      |-> T(TRUE, "k3", 3, "T", "T", TRUE, J3, TRUE, <<>>, "T/api"),
      \* header kid that is not in the configuration's own key set
      ecBadKid |-> T(TRUE, "k1", 2, "B", "B", TRUE, J2, TRUE, <<>>, "B/api"),
      \* signature made with another key than the one the kid names
      ecBadSig |-> T(TRUE, "k1", 2, "A", "A", TRUE, J1, TRUE, <<>>, Absent),
      \* two keys with the same kid, signed with the second
      ecDup    |-> T(TRUE, "k1", 1, "T", "T", TRUE, Jdup, TRUE, <<>>, "T/api"),
      \* no kid in the header, a key without kid in the key set
      ecNoKid  |-> T(TRUE, None, 1, "B", "B", TRUE, JN, FALSE, <<>>, Absent),
      \* a valid self signed configuration that declares itself to be T
      ecFakeT  |-> T(TRUE, "k1", 1, "T", "T", TRUE, J1, TRUE, <<>>, "B/api"),
      \* not a decodable token
      garbage  |-> T(FALSE, None, 0, Absent, Absent, FALSE, <<>>, FALSE, <<>>, Absent),
      \* payload without sub and without iss, signed by B, embedding A's keys
      stNoIss  |-> T(TRUE, "k2", 2, Absent, Absent, TRUE, J1, FALSE, <<>>, Absent),
      \* payload without jwks, signed by B
      stNoJwks |-> T(TRUE, "k2", 2, "B", "A", FALSE, <<>>, FALSE, <<>>, Absent),
      \* statements issued by B about A
      stBA     |-> T(TRUE, "k2", 2, "B", "A", TRUE, J1, FALSE, <<>>, Absent),
      stBAkeys |-> T(TRUE, "k2", 2, "B", "A", TRUE, J2, FALSE, <<>>, Absent),
      stBAdup  |-> T(TRUE, "k2", 2, "B", "A", TRUE, Jdup, FALSE, <<>>, Absent),
      stBAsig  |-> T(TRUE, "k2", 1, "B", "A", TRUE, J1, FALSE, <<>>, Absent),
      stBAkid  |-> T(TRUE, "k1", 2, "B", "A", TRUE, J1, FALSE, <<>>, Absent),
      \* signed by B with A's keys, but declaring issuer T and subject B
      stTB     |-> T(TRUE, "k2", 2, "T", "B", TRUE, J1, FALSE, <<>>, Absent) ]

Tokens == DOMAIN Tok

\* the filter_by_allowed_trust_marks arguments: none (the default), or one
\* trust mark
TrustMarkFilters == {<<>>, <<"mark">>}

\* The documents a URL may answer with (the network is not trusted).
Serve(url) ==
    CASE url = "A" -> {"ecA", "ecBadSig"}
      [] url = "B" -> {"ecB", "ecBadKid", "ecFakeT"}
      [] url = "T" -> {"ecT", "garbage"}
      [] url = "B/api" -> {"stBA", "stBAkeys", "stTB", "stNoIss", "garbage"}
      [] url = "T/api" -> {"stBA", "stNoJwks"}
      [] OTHER -> {"garbage"}

\* ------------------------------------------------------------ collaborators
Range(s) == {s[i] : i \in DOMAIN s}

\* jwtse.unpad_jwt_head / unpad_jwt_payload: decode without verifying; a
\* token that is not well formed raises.
unpad_jwt_head(jwt) == IF Tok[jwt].ok THEN NoErr ELSE "MalformedTokenError"
unpad_jwt_payload(jwt) == IF Tok[jwt].ok THEN NoErr ELSE "MalformedTokenError"

\* jwtse.verify_jws(jws, key): returns when the signature of jws was made
\* with key, raises otherwise.
verify_jws(jwt, key) == Tok[jwt].ok /\ Tok[jwt].signer = key.k

\* http_client.http_get: one answer per url, in the order of the urls.
RECURSIVE http_get(_)
http_get(urls) ==
    IF urls = <<>> THEN {<<>>}
    ELSE {<<jwt>> \o rest : jwt \in Serve(Head(urls)), rest \in http_get(Tail(urls))}

\* OIDCFED_FEDERATION_WELLKNOWN_URL
OIDCFED_FEDERATION_WELLKNOWN_URL == ".well-known/openid-federation"

\* get_entity_statements(urls): the answers to the urls as they are given
get_entity_statements(urls) == http_get(urls)

\* get_entity_configurations, the url built for a subject: a "/" is added
\* when the subject does not end with one (subject[-1] != "/"), then the
\* well known path
well_known_url(subject) ==
    IF subject \in {s \o "/" : s \in Subjects}
    THEN subject \o OIDCFED_FEDERATION_WELLKNOWN_URL
    ELSE (subject \o "/") \o OIDCFED_FEDERATION_WELLKNOWN_URL

\* get_entity_configurations(subjects): the answers to the well known urls
\* of the subjects
get_entity_configurations(subjects) ==
    http_get([n \in DOMAIN subjects |-> well_known_url(subjects[n])])

\* list.index(x): the first position of x
index(s, x) == CHOOSE i \in DOMAIN s : s[i] = x /\ \A j \in 1..(i - 1) : s[j] # x

\* dict with string keys
EmptyMap == [x \in {} |-> 0]
Put(m, k, v) == [x \in DOMAIN m \cup {k} |-> IF x = k THEN v ELSE m[x]]
\* the values kept in verified_superiors / failed_superiors: an
\* EntityConfiguration object (its position in ents) or a decoded payload
\* (the token it was decoded from)
EcVal(i) == [ec |-> i, payload |-> ""]
PayloadVal(jwt) == [ec |-> 0, payload |-> jwt]

\* ------------------------------------------------------------ the functions
get_jwks(jwt) == IF Tok[jwt].has_jwks THEN Tok[jwt].jwks ELSE <<>>

kids_of(jwks) == [i \in DOMAIN jwks |-> jwks[i].kid]

\* EntityConfiguration.__init__: the exception it raises, or NoErr
init_err(jwt) ==
    IF unpad_jwt_head(jwt) # NoErr THEN unpad_jwt_head(jwt)
    ELSE IF Tok[jwt].sub = Absent THEN "KeyError"
    ELSE IF ~Tok[jwt].has_jwks THEN "TypeError"
    ELSE NoErr

\* an object that is born valid
EntityConfiguration_valid(jwt, filter_by_allowed_trust_marks, parent) ==
    [jwt |-> jwt,
     filter_by_allowed_trust_marks |-> filter_by_allowed_trust_marks,
     sub |-> Tok[jwt].sub,
     jwks |-> get_jwks(jwt),
     kids |-> kids_of(get_jwks(jwt)),
     verified_superiors |-> EmptyMap,
     failed_superiors |-> EmptyMap,
     verified_by_superiors |-> EmptyMap,
     failed_by_superiors |-> EmptyMap,
     is_valid |-> TRUE,
     parent |-> parent,
     asked |-> {},
     checks |-> <<>>]

\* EntityConfiguration.__init__: the object it builds.  header and payload
\* are the decoding of jwt and are never assigned again, so they are read
\* through Tok[e.jwt].  parent, asked and checks are history: the object
\* whose get_superiors built this one (0: the caller), the urls
\* get_superiors of this object has requested, and how each call of
\* validate_by_itself on this object ended.
EntityConfiguration(jwt, filter_by_allowed_trust_marks, parent) ==
    [jwt |-> jwt,
     filter_by_allowed_trust_marks |-> filter_by_allowed_trust_marks,
     sub |-> Tok[jwt].sub,
     jwks |-> get_jwks(jwt),
     kids |-> kids_of(get_jwks(jwt)),
     verified_superiors |-> EmptyMap,
     failed_superiors |-> EmptyMap,
     verified_by_superiors |-> EmptyMap,
     failed_by_superiors |-> EmptyMap,
     is_valid |-> FALSE,
     parent |-> parent,
     asked |-> {},
     checks |-> <<>>]

\* the kid lookup and signature check shared by validate_by_itself and
\* validate_descendant_statement: jwt against the key set of e
kid_check_err(e, jwt) ==
    IF Tok[jwt].kid \notin Range(e.kids) THEN "UnknownKid"
    ELSE IF Tok[jwt].kid = None THEN "KeyError"
    ELSE IF ~verify_jws(jwt, e.jwks[index(e.kids, Tok[jwt].kid)])
         THEN "VerificationError"
    ELSE NoErr

\* a second call on a valid object is refused
validate_by_itself_err_once(e) ==
    IF e.is_valid THEN "UnknownKid" ELSE kid_check_err(e, e.jwt)

\* EntityConfiguration.validate_by_itself: the exception it raises, or NoErr
validate_by_itself_err(e) == kid_check_err(e, e.jwt)

\* is_valid set whether or not the checks passed
validate_by_itself_obj_unchecked(e) == [e EXCEPT !.is_valid = TRUE]

\* EntityConfiguration.validate_by_itself: the object after the call
validate_by_itself_obj(e) ==
    IF validate_by_itself_err(e) = NoErr
    THEN [e EXCEPT !.is_valid = TRUE, !.checks = Append(@, NoErr)]
    ELSE [e EXCEPT !.checks = Append(@, validate_by_itself_err(e))]

\* EntityConfiguration.validate_by_itself: the value returned
validate_by_itself_ret(e) ==
    IF validate_by_itself_err(e) = NoErr THEN "True" ELSE "raised"

\* EntityConfiguration.validate_descendant_statement
validate_descendant_statement_err(e, jwt) ==
    IF unpad_jwt_head(jwt) # NoErr THEN unpad_jwt_head(jwt)
    ELSE kid_check_err(e, jwt)

\* EntityConfiguration.get_superiors, the hints it works on:
\* authority_hints or self.payload["authority_hints"]
hints_or_own(e, authority_hints) ==
    IF authority_hints # <<>> THEN authority_hints ELSE Tok[e.jwt].hints

\* EntityConfiguration.get_superiors, "apply limits if defined"
apply_limits(authority_hints, max_authority_hints) ==
    IF max_authority_hints # 0 /\ Len(authority_hints) > max_authority_hints
    THEN SubSeq(authority_hints, 1, max_authority_hints)
    ELSE authority_hints

\* EntityConfiguration.get_superiors, the loop over the fetched jwts from
\* position n on: the objects after it and the exception that ended it
RECURSIVE superiors_loop(_, _, _, _)
superiors_loop(es, self, jwts, n) ==
    IF n > Len(jwts) THEN [ents |-> es, err |-> NoErr]
    ELSE IF init_err(jwts[n]) # NoErr THEN [ents |-> es, err |-> init_err(jwts[n])]
    ELSE LET ec == EntityConfiguration(jwts[n], <<>>, self) IN
         IF validate_by_itself_err(ec) # NoErr
         THEN [ents |-> es, err |-> validate_by_itself_err(ec)]
         ELSE LET es1 == Append(es, validate_by_itself_obj(ec))
                  new == EcVal(Len(es1))
                  sub == Tok[jwts[n]].sub
              IN  IF validate_by_itself_ret(ec) = "True"
                  THEN superiors_loop(
                         [es1 EXCEPT ![self].verified_superiors = Put(@, sub, new)],
                         self, jwts, n + 1)
                  ELSE superiors_loop(
                         [es1 EXCEPT ![self].failed_superiors = Put(@, sub, new)],
                         self, jwts, n + 1)

\* the try block without ec.validate_by_itself()
try_err_no_self_validation(self, jwt, ec) ==
    IF unpad_jwt_payload(jwt) # NoErr THEN unpad_jwt_payload(jwt)
    ELSE IF validate_descendant_statement_err(ec, jwt) # NoErr
         THEN validate_descendant_statement_err(ec, jwt)
    ELSE IF ~Tok[jwt].has_jwks THEN "TypeError"
    ELSE IF Tok[self.jwt].kid = None THEN "KeyError"
    ELSE IF Tok[self.jwt].kid \notin Range(kids_of(get_jwks(jwt))) THEN "ValueError"
    ELSE IF ~verify_jws(self.jwt,
                        get_jwks(jwt)[index(kids_of(get_jwks(jwt)), Tok[self.jwt].kid)])
         THEN "VerificationError"
    ELSE NoErr

\* EntityConfiguration.validate_by_superior_statement, the try block: the
\* exception that the except clause catches, or NoErr
try_err(self, jwt, ec) ==
    IF unpad_jwt_payload(jwt) # NoErr THEN unpad_jwt_payload(jwt)
    ELSE IF validate_by_itself_err(ec) # NoErr THEN validate_by_itself_err(ec)
    ELSE IF validate_descendant_statement_err(ec, jwt) # NoErr
         THEN validate_descendant_statement_err(ec, jwt)
    ELSE IF ~Tok[jwt].has_jwks THEN "TypeError"
    ELSE IF Tok[self.jwt].kid = None THEN "KeyError"
    ELSE IF Tok[self.jwt].kid \notin Range(kids_of(get_jwks(jwt))) THEN "ValueError"
    ELSE IF ~verify_jws(self.jwt,
                        get_jwks(jwt)[index(kids_of(get_jwks(jwt)), Tok[self.jwt].kid)])
         THEN "VerificationError"
    ELSE NoErr

\* the superior marked valid without its self validation
try_ec_marked(jwt, ec) == [ec EXCEPT !.is_valid = TRUE]

\* EntityConfiguration.validate_by_superior_statement, the try block: what
\* it leaves of the superior ec (ec.validate_by_itself() sets ec.is_valid)
try_ec(jwt, ec) ==
    IF unpad_jwt_payload(jwt) = NoErr THEN validate_by_itself_obj(ec) ELSE ec

\* EntityConfiguration.validate_by_superior_statement on the objects es:
\* self and ec are positions.  The objects after the call, the value
\* returned and the exception that leaves the call.
validate_by_superior_statement(es, self, jwt, ec) ==
    LET is_valid == try_err(es[self], jwt, es[ec]) = NoErr
        es1 == [es EXCEPT ![ec] = try_ec(jwt, es[ec])]
    IN  IF unpad_jwt_payload(jwt) # NoErr
        THEN [ents |-> es1, ret |-> "raised", err |-> "UnboundLocalError"]
        ELSE IF Tok[jwt].iss = Absent
        THEN [ents |-> es1, ret |-> "raised", err |-> "KeyError"]
        ELSE IF is_valid
        THEN [ents |-> [es1 EXCEPT ![self].verified_superiors =
                            Put(@, Tok[jwt].iss, PayloadVal(jwt))],
              ret |-> "True", err |-> NoErr]
        ELSE [ents |-> [es1 EXCEPT ![self].failed_superiors =
                            Put(@, Tok[jwt].iss, PayloadVal(jwt))],
              ret |-> "False", err |-> NoErr]

\* EntityConfiguration.validate_by_superiors, the loop over the superiors
\* from position n on; jwts[n] is the answer of the n-th superior's endpoint
RECURSIVE by_superiors_loop(_, _, _, _, _)
by_superiors_loop(es, self, sups, jwts, n) ==
    IF n > Len(sups) THEN [ents |-> es, err |-> NoErr]
    ELSE IF Tok[es[sups[n]].jwt].endpoint = Absent
    THEN \* self.invalid_superiors is not an attribute of the object
         [ents |-> es, err |-> "AttributeError"]
    ELSE LET r == validate_by_superior_statement(es, self, jwts[n], sups[n]) IN
         IF r.err # NoErr THEN [ents |-> r.ents, err |-> r.err]
         ELSE by_superiors_loop(
                [r.ents EXCEPT ![self].verified_by_superiors =
                     Put(@, es[sups[n]].sub, r.ret = "True")],
                self, sups, jwts, n + 1)

\* the lists without repetition over S of at most n elements
Lists(S, n) ==
    UNION {{s \in [1..m -> S] : \A i, j \in 1..m : i # j => s[i] # s[j]} : m \in 0..n}


\* ------------------------------------------------------------------ state
VARIABLES
    ents,   \* the EntityConfiguration objects, by position
    last,   \* the last call: what was called, with what, and how it ended
    steps   \* the number of calls made

vars == <<ents, last, steps>>

Call(op, self, jwt, ec, ret, err) ==
    [op |-> op, self |-> self, jwt |-> jwt, ec |-> ec, ret |-> ret, err |-> err,
     arg |-> <<>>, hints |-> <<>>, max |-> 0, urls |-> <<>>, docs |-> <<>>,
     sups |-> <<>>]

\* the state after the caller has built one EntityConfiguration from a self
\* issued statement, with the default arguments
Init ==
    /\ \E jwt \in Tokens :
          /\ init_err(jwt) = NoErr
          /\ Tok[jwt].iss = Tok[jwt].sub
          /\ ents = <<EntityConfiguration(jwt, <<>>, 0)>>
          /\ last = Call("__init__", 1, jwt, 0, "None", NoErr)
    /\ steps = 0

\* the caller builds an EntityConfiguration from a token
Construct ==
    \E jwt \in Tokens, filter \in TrustMarkFilters :
        /\ steps < MaxSteps
        /\ Len(ents) < MaxEnts
        /\ steps' = steps + 1
        /\ last' = Call("__init__", IF init_err(jwt) = NoErr THEN Len(ents) + 1 ELSE 0,
                        jwt, 0, IF init_err(jwt) = NoErr THEN "None" ELSE "raised",
                        init_err(jwt))
        /\ ents' = IF init_err(jwt) = NoErr
                   THEN Append(ents, EntityConfiguration(jwt, filter, 0))
                   ELSE ents

ValidateByItself ==
    \E i \in DOMAIN ents :
        /\ steps < MaxSteps
        /\ steps' = steps + 1
        /\ ents' = [ents EXCEPT ![i] = validate_by_itself_obj(ents[i])]
        /\ last' = Call("validate_by_itself", i, "", 0,
                        validate_by_itself_ret(ents[i]), validate_by_itself_err(ents[i]))

GetSuperiors ==
    \E self \in DOMAIN ents, authority_hints \in Lists(Subjects, MaxHintLen),
       max_authority_hints \in 0..MaxAuthorityHints :
        /\ steps < MaxSteps
        /\ steps' = steps + 1
        /\ IF authority_hints = <<>> /\ ~Tok[ents[self].jwt].has_hints
           THEN /\ ents' = ents
                /\ last' = [Call("get_superiors", self, "", 0, "raised", "KeyError")
                              EXCEPT !.arg = authority_hints,
                                     !.max = max_authority_hints]
           ELSE LET urls == apply_limits(hints_or_own(ents[self], authority_hints),
                                         max_authority_hints)
                IN  \E jwts \in get_entity_statements(urls) :
                      LET asked == [ents EXCEPT ![self].asked = @ \cup Range(urls)]
                          r == superiors_loop(asked, self, jwts, 1)
                      IN  /\ Len(r.ents) <= MaxEnts
                          /\ ents' = r.ents
                          /\ last' = [Call("get_superiors", self, "", 0,
                                           IF r.err = NoErr THEN "verified_superiors"
                                           ELSE "raised", r.err)
                                        EXCEPT !.arg = authority_hints,
                                               !.hints = hints_or_own(ents[self],
                                                                      authority_hints),
                                               !.max = max_authority_hints,
                                               !.urls = urls,
                                               !.docs = jwts]

ValidateDescendantStatement ==
    \E self \in DOMAIN ents, jwt \in Tokens :
        /\ steps < MaxSteps
        /\ steps' = steps + 1
        /\ ents' = ents
        /\ last' = Call("validate_descendant_statement", self, jwt, 0,
                        IF validate_descendant_statement_err(ents[self], jwt) = NoErr
                        THEN "True" ELSE "raised",
                        validate_descendant_statement_err(ents[self], jwt))

ValidateBySuperiorStatement ==
    \E self \in DOMAIN ents, jwt \in Tokens, ec \in DOMAIN ents :
        LET r == validate_by_superior_statement(ents, self, jwt, ec) IN
        /\ steps < MaxSteps
        /\ steps' = steps + 1
        /\ ents' = r.ents
        /\ last' = Call("validate_by_superior_statement", self, jwt, ec, r.ret, r.err)

\* get_valid_trust_marks raises NotImplementedError, whatever the filter
GetValidTrustMarks ==
    \E self \in DOMAIN ents :
        /\ steps < MaxSteps
        /\ steps' = steps + 1
        /\ ents' = ents
        /\ last' = Call("get_valid_trust_marks", self, "", 0, "raised",
                        "NotImplementedError")

ValidateBySuperiors ==
    \E self \in DOMAIN ents, sups \in Lists(DOMAIN ents, MaxHintLen) :
        \E jwts \in get_entity_statements(
                       [n \in DOMAIN sups |-> Tok[ents[sups[n]].jwt].endpoint]) :
            LET r == by_superiors_loop(ents, self, sups, jwts, 1) IN
            /\ steps < MaxSteps
            /\ steps' = steps + 1
            /\ ents' = r.ents
            /\ last' = [Call("validate_by_superiors", self, "", 0,
                             IF r.err = NoErr THEN "verified_by_superiors"
                             ELSE "raised", r.err)
                          EXCEPT !.sups = sups, !.docs = jwts]

Next ==
    \/ Construct
    \/ ValidateByItself
    \/ GetSuperiors
    \/ ValidateDescendantStatement
    \/ ValidateBySuperiorStatement
    \/ ValidateBySuperiors
    \/ GetValidTrustMarks

Spec == Init /\ [][Next]_vars

\* ------------------------------------------------------------------ claims
VBSS == "validate_by_superior_statement"

\* jwt carries a kid, and the first key of jwks with that kid made its
\* signature
SignedByKid(jwt, jwks) ==
    /\ Tok[jwt].ok
    /\ Tok[jwt].kid # None
    /\ \E n \in DOMAIN jwks :
         /\ jwks[n].kid = Tok[jwt].kid
         /\ \A m \in 1..(n - 1) : jwks[m].kid # Tok[jwt].kid
         /\ jwks[n].k = Tok[jwt].signer

\* C1: validate_by_superior_statement never lets an exception escape: every
\* call of it returns normally.
C1_NoExceptionEscapes ==
    last.op = VBSS => last.err = NoErr

\* C2: for every entity configuration, verified_superiors and
\* failed_superiors have no key in common and their keys are together
\* exactly the superiors that were fetched.
C2_SuperiorsPartition ==
    \A i \in DOMAIN ents :
        /\ DOMAIN ents[i].verified_superiors \cap DOMAIN ents[i].failed_superiors = {}
        /\ DOMAIN ents[i].verified_superiors \cup DOMAIN ents[i].failed_superiors
             = ents[i].asked

\* C3: in get_superiors a fetched superior whose self validation does not
\* succeed is put in failed_superiors, the other superiors of the batch are
\* still classified, and the call does not fail.
C3_BadSuperiorIsFailed ==
    (/\ last.op = "get_superiors"
     /\ \A n \in DOMAIN last.docs : init_err(last.docs[n]) = NoErr)
    => /\ last.err = NoErr
       /\ \A n \in DOMAIN last.docs :
            IF SignedByKid(last.docs[n], get_jwks(last.docs[n]))
            THEN Tok[last.docs[n]].sub \in DOMAIN ents[last.self].verified_superiors
            ELSE Tok[last.docs[n]].sub \in DOMAIN ents[last.self].failed_superiors

\* C4: whenever validate_by_superior_statement(jwt, ec) returns True, the
\* statement's iss is ec.sub and the statement's sub is self.sub.
C4_AcceptedEdgeMatches ==
    (last.op = VBSS /\ last.ret = "True" /\ last.self # last.ec)
    => /\ Tok[last.jwt].iss = ents[last.ec].sub
       /\ Tok[last.jwt].sub = ents[last.self].sub

\* C5: validate_by_superior_statement(jwt, ec) returns True only if ec
\* passes its own self validation, jwt is signed by the key of ec's key set
\* that jwt's header kid selects, and self's own token is signed by the key
\* that self's header kid selects in the key set embedded in jwt's payload.
C5_TrueOnlyIfAllThree ==
    (last.op = VBSS /\ last.ret = "True")
    => /\ SignedByKid(ents[last.ec].jwt, ents[last.ec].jwks)
       /\ SignedByKid(last.jwt, ents[last.ec].jwks)
       /\ Tok[last.jwt].has_jwks
       /\ SignedByKid(ents[last.self].jwt, Tok[last.jwt].jwks)

C5_Witness ==
    /\ last.op = VBSS
    /\ last.ret = "True"
    /\ last.self # last.ec

\* C6: validate_by_superior_statement records its outcome under the
\* statement's iss in verified_by_superiors (success) or failed_by_superiors
\* (failure) of self, and writes nothing into verified_superiors or
\* failed_superiors.
C6_RecordsInBySuperiors ==
    [][(last'.op = VBSS /\ last'.err = NoErr)
       => /\ ents'[last'.self].verified_superiors = ents[last'.self].verified_superiors
          /\ ents'[last'.self].failed_superiors = ents[last'.self].failed_superiors
          /\ IF last'.ret = "True"
             THEN Tok[last'.jwt].iss \in DOMAIN ents'[last'.self].verified_by_superiors
             ELSE Tok[last'.jwt].iss \in DOMAIN ents'[last'.self].failed_by_superiors
      ]_vars

\* C7: when max_authority_hints > 0 and there are more hints than that,
\* get_superiors fetches exactly the first max_authority_hints hints in
\* their order, and no discarded hint becomes a key of verified_superiors or
\* failed_superiors by that call.
C7_TruncationLaw ==
    [][(/\ last'.op = "get_superiors"
        /\ last'.max > 0
        /\ Len(last'.hints) > last'.max)
       => /\ last'.urls = SubSeq(last'.hints, 1, last'.max)
          /\ \A n \in (last'.max + 1)..Len(last'.hints) :
               /\ last'.hints[n] \notin
                    DOMAIN ents'[last'.self].verified_superiors
                      \ DOMAIN ents[last'.self].verified_superiors
               /\ last'.hints[n] \notin
                    DOMAIN ents'[last'.self].failed_superiors
                      \ DOMAIN ents[last'.self].failed_superiors
      ]_vars

\* C8: validate_by_itself returns True and sets is_valid, or raises and
\* leaves is_valid as it was; it never returns False.  A header kid that is
\* not in the key set raises UnknownKid; a kid that is found with a signature
\* that does not verify raises the verifier's error.
C8_SelfValidationOutcome ==
    [][last'.op = "validate_by_itself"
       => LET e == ents[last'.self]
              kid == Tok[e.jwt].kid
          IN  /\ last'.ret \in {"True", "raised"}
              /\ last'.ret = "True" <=> last'.err = NoErr
              /\ last'.ret = "True" => ents'[last'.self].is_valid
              /\ last'.ret = "raised"
                   => ents'[last'.self].is_valid = e.is_valid
              /\ kid \notin Range(e.kids) => last'.err = "UnknownKid"
              /\ (/\ kid # None
                  /\ kid \in Range(e.kids)
                  /\ ~SignedByKid(e.jwt, e.jwks))
                   => last'.err = "VerificationError"
              /\ SignedByKid(e.jwt, e.jwks) => last'.ret = "True"
      ]_vars

C8_Witness ==
    /\ last.op = "validate_by_itself"
    /\ last.err = "VerificationError"
    /\ ~ents[last.self].is_valid

\* C9: in validate_by_superiors a superior without federation_api_endpoint
\* raises no error: the loop goes on, and the superior is in neither
\* verified_by_superiors nor failed_superiors.
C9_MissingEndpointIsNoError ==
    (/\ last.op = "validate_by_superiors"
     /\ \E n \in DOMAIN last.sups : Tok[ents[last.sups[n]].jwt].endpoint = Absent)
    => last.err # "AttributeError"

\* the objects on the path from the caller's object down to object j
RECURSIVE Ancestors(_)
Ancestors(j) ==
    IF ents[j].parent = 0 THEN {}
    ELSE {ents[j].parent} \cup Ancestors(ents[j].parent)

\* C10: calling get_superiors (with the object's own authority hints) on
\* the superiors that get_superiors returned never enters a subject that is
\* already on the current path.
C10_NoReentry ==
    (last.op = "get_superiors" /\ last.arg = <<>> /\ last.err = NoErr)
    => \A j \in DOMAIN ents :
         ents[j].parent = last.self
         => \A a \in Ancestors(j) : ents[a].sub # ents[j].sub

\* C11: a leaf whose get_superiors returned the single superior T, and whose
\* validate_by_superiors is then run on that superior with T's statement
\* about the leaf (issued by T for the leaf, signed by the key of T that its
\* kid names, embedding the leaf's key set), ends with verified_superiors =
\* {T: T's entity configuration} and verified_by_superiors = {T: True}.
C11_EndToEnd ==
    (/\ last.op = "validate_by_superiors"
     /\ Len(last.sups) = 1
     /\ ents[last.sups[1]].parent = last.self
     /\ ents[last.self].asked = {ents[last.sups[1]].sub}
     /\ Tok[ents[last.sups[1]].jwt].endpoint # Absent
     /\ Tok[last.docs[1]].iss = ents[last.sups[1]].sub
     /\ Tok[last.docs[1]].sub = ents[last.self].sub
     /\ SignedByKid(last.docs[1], ents[last.sups[1]].jwks)
     /\ Tok[last.docs[1]].has_jwks
     /\ Tok[last.docs[1]].jwks = ents[last.self].jwks)
    => /\ last.err = NoErr
       /\ ents[last.self].verified_superiors
            = Put(EmptyMap, ents[last.sups[1]].sub, EcVal(last.sups[1]))
       /\ ents[last.self].verified_by_superiors
            = Put(EmptyMap, ents[last.sups[1]].sub, TRUE)

\* C12: when the key set embedded in the superior's statement has no key
\* with the subject's own kid, validate_by_superior_statement returns False
\* and raises nothing, and validate_by_superiors leaves False under that
\* superior in verified_by_superiors.
LacksOwnKid(self, jwt) ==
    /\ Tok[jwt].ok
    /\ Tok[jwt].has_jwks
    /\ Tok[ents[self].jwt].kid \notin Range(kids_of(Tok[jwt].jwks))

C12_LackingKidIsFalse ==
    /\ (last.op = VBSS /\ LacksOwnKid(last.self, last.jwt))
       => (last.err = NoErr /\ last.ret = "False")
    /\ (/\ last.op = "validate_by_superiors"
        /\ Len(last.sups) = 1
        /\ Tok[ents[last.sups[1]].jwt].endpoint # Absent
        /\ LacksOwnKid(last.self, last.docs[1]))
       => /\ last.err = NoErr
          /\ ents[last.sups[1]].sub \in DOMAIN ents[last.self].verified_by_superiors
          /\ ents[last.self].verified_by_superiors[ents[last.sups[1]].sub] = FALSE

\* C13: for each retained authority hint h, get_superiors requests the well
\* known url of h (h, one "/", ".well-known/openid-federation"), not h
\* itself.
C13_FetchesWellKnownUrl ==
    last.op = "get_superiors"
    => \A n \in DOMAIN last.urls :
         last.urls[n]
           = well_known_url(apply_limits(last.hints, last.max)[n])

\* the keys that a step added to the dict m, or gave another value
Written(m, n) == {k \in DOMAIN n : k \notin DOMAIN m \/ m[k] # n[k]}

\* C14: every key that get_superiors adds to verified_superiors or
\* failed_superiors is one of the hints requested in that call and maps to
\* the configuration fetched for that hint.
C14_AttributedByHint ==
    [][last'.op = "get_superiors"
       => \A k \in Written(ents[last'.self].verified_superiors,
                           ents'[last'.self].verified_superiors)
                   \cup Written(ents[last'.self].failed_superiors,
                                ents'[last'.self].failed_superiors) :
            \E n \in DOMAIN last'.urls :
                /\ last'.urls[n] = k
                /\ \E v \in {ents'[last'.self].verified_superiors,
                             ents'[last'.self].failed_superiors} :
                     /\ k \in DOMAIN v
                     /\ v[k].ec \in DOMAIN ents'
                     /\ ents'[v[k].ec].jwt = last'.docs[n]
      ]_vars

\* C15: self validation is idempotent: every call of validate_by_itself on
\* an object ends as the calls before it on that object ended (True each
\* time, or the same error each time), and leaves jwks and kids as they
\* were.
C15_SelfValidationIdempotent ==
    [][last'.op = "validate_by_itself"
       => /\ ents'[last'.self].jwks = ents[last'.self].jwks
          /\ ents'[last'.self].kids = ents[last'.self].kids
          /\ ents'[last'.self].jwt = ents[last'.self].jwt
          /\ \A m \in DOMAIN ents'[last'.self].checks :
               ents'[last'.self].checks[m] = last'.err
      ]_vars

C15_Witness ==
    /\ last.op = "validate_by_itself"
    /\ Len(ents[last.self].checks) >= 2
    /\ last.err # NoErr

\* C16: a filter_by_allowed_trust_marks that is not empty is never ignored:
\* get_superiors and validate_by_superiors on an object built with one fail
\* with the error of an unsupported feature.
C16_FilterFailsLoudly ==
    (/\ last.op \in {"get_superiors", "validate_by_superiors"}
     /\ ents[last.self].filter_by_allowed_trust_marks # <<>>)
    => last.err = "NotImplementedError"

\* C17: a token whose header has no kid is rejected as an unknown kid by
\* validate_by_itself and by validate_descendant_statement, also when the
\* key set holds a key without kid.
C17_NoKidIsUnknownKid ==
    /\ (last.op = "validate_by_itself" /\ Tok[ents[last.self].jwt].kid = None)
       => last.err = "UnknownKid"
    /\ (/\ last.op = "validate_descendant_statement"
        /\ Tok[last.jwt].ok
        /\ Tok[last.jwt].kid = None)
       => last.err = "UnknownKid"

\* the attributes of an EntityConfiguration other than is_valid
Attributes(e) ==
    <<e.jwt, e.filter_by_allowed_trust_marks, e.sub, e.jwks, e.kids,
      e.verified_superiors, e.failed_superiors, e.verified_by_superiors,
      e.failed_by_superiors>>

\* the objects a call works for: the object it is run on
IsCall(l) == l.op \in {"validate_by_itself", "get_superiors",
                       "validate_descendant_statement", VBSS,
                       "validate_by_superiors", "get_valid_trust_marks"}

\* C18 as stated: no operation run on one entity configuration changes any
\* attribute of another one, is_valid included; in particular
\* validate_by_superior_statement and validate_by_superiors leave the
\* superior ec as it was.
C18_OthersUntouched ==
    [][IsCall(last')
       => \A j \in DOMAIN ents :
            j # last'.self
            => /\ Attributes(ents'[j]) = Attributes(ents[j])
               /\ ents'[j].is_valid = ents[j].is_valid
      ]_vars

\* C18 as amended: no operation run on one entity configuration changes
\* another one, except that validate_by_superior_statement and
\* validate_by_superiors set is_valid of a superior ec they are given to
\* True when ec passes its own self validation; nothing else of ec changes.
C18_OthersUntouchedButIsValid ==
    [][IsCall(last')
       => \A j \in DOMAIN ents :
            j # last'.self
            => /\ Attributes(ents'[j]) = Attributes(ents[j])
               /\ ents'[j].is_valid # ents[j].is_valid
                    => /\ ents'[j].is_valid
                       /\ SignedByKid(ents[j].jwt, ents[j].jwks)
                       /\ \/ last'.op = VBSS /\ last'.ec = j
                          \/ last'.op = "validate_by_superiors"
                               /\ j \in Range(last'.sups)
      ]_vars

C18_Witness ==
    /\ last.op = VBSS
    /\ last.self # last.ec
    /\ ents[last.ec].is_valid
    /\ ents[last.ec].checks = <<NoErr>>
    /\ ents[last.ec].parent = 0

\* C19: is_valid is True only on an object on which a call of
\* validate_by_itself has succeeded (its header kid is in its own key set
\* and its token verifies against the key of that kid); a newly built object
\* has is_valid False; and is_valid, once True, is never set back to False.
C19_IsValidMeansSelfValidated ==
    /\ [](\A i \in DOMAIN ents :
            /\ ents[i].is_valid
                 => /\ NoErr \in Range(ents[i].checks)
                    /\ SignedByKid(ents[i].jwt, ents[i].jwks)
            /\ ents[i].checks = <<>> => ~ents[i].is_valid)
    /\ [][\A i \in DOMAIN ents : ents[i].is_valid => ents'[i].is_valid]_vars

C19_Witness ==
    /\ last.op = "validate_by_itself"
    /\ ents[last.self].is_valid
    /\ ents[last.self].checks = <<NoErr, NoErr>>

====
